---- MODULE Spec2Model ----
(***************************************************************************)
(* Team balancer (src/team_balancer.py) and its HTTP front end             *)
(* (src/api.py).                                                           *)
(*                                                                         *)
(* A TeamBalancer holds a list of players.  balance_teams validates that   *)
(* the roster divides into num_teams teams, then runs num_attempts         *)
(* attempts; each attempt shuffles the player list in place, builds an     *)
(* integer program, hands it to the CBC solver through PuLP, extracts the  *)
(* teams from the variables whose value is 1 and keeps the attempt if its  *)
(* spread of team averages is strictly smaller than the best so far.       *)
(*                                                                         *)
(* The solver is outside the repository.  Its outcome is a nondeterministic*)
(* choice among what prob.solve can hand back for the program built by     *)
(* lines 57-98: a status string and a value for every variable, or an      *)
(* exception.  Values are kept in halves (0, 1, 2 stand for 0, 1/2, 1), so *)
(* that the continuous values CBC leaves behind when it is stopped by the  *)
(* time limit before it has an integer solution (PuLP status 'Not Solved') *)
(* are fractional points of the linear relaxation.                         *)
(*                                                                         *)
(* Ratings are integers.  An average sum/len is kept exactly, scaled by    *)
(* N! (N the roster size), so that averages of teams of different sizes    *)
(* compare as the quotients do.                                            *)
(***************************************************************************)
EXTENDS Integers, Sequences, FiniteSets, TLC

VARIABLES
    csv,                    \* the rows handed to TeamBalancer(...), in file order
    players,                \* self.players
    position_requirements,  \* self.position_requirements
    pc,                     \* where the caller / balance_teams is
    num_teams,              \* argument of balance_teams
    num_attempts,           \* argument of balance_teams
    attempt,                \* attempts completed by the for loop
    best_teams,             \* local best_teams
    best_diff,              \* local best_diff
    status,                 \* LpStatus[prob.status] of the last solve
    result,                 \* the value balance_teams returned
    exc,                    \* the exception that left balance_teams, or "none"
    response,               \* the HTTP answer of the endpoint
    hist,                   \* history: what each _try_balance_teams call returned
    solver_calls,           \* history: number of prob.solve calls of this run
    shuffles,               \* history: number of random.shuffle calls of this run
    prev                    \* history: outcome of the previous run on this balancer

vars == <<csv, players, position_requirements, pc, num_teams, num_attempts,
          attempt, best_teams, best_diff, status, result, exc, response, hist,
          solver_calls, shuffles, prev>>

----------------------------------------------------------------------------
(* Bounds of the model *)

MaxTeams == 2

MaxAttempts == 2

----------------------------------------------------------------------------
(* Program constants *)

\* float('inf'): larger than every rating difference; ratings are never negative
Inf == -1

\* time_limit: int = 30
TimeLimit == 30

\* rating_threshold: float = 0.1, in hundredths
rating_threshold == 10

\* status codes the endpoints raise
HTTP_BAD_REQUEST == 400

HTTP_SERVER_ERROR == 500

NoTeamsDetail == "Could not balance teams with given constraints"

Positions == {"DEF", "MID", "ATT"}

Player(n, o, p) == [name |-> n, overall |-> o, position |-> p]

\* self.position_requirements as __init__ sets it
DefaultRequirements == [p \in Positions |-> 2]

\* the attribute re-assigned by a caller that only wants a DEF quota
DefOnlyRequirements == [p \in {"DEF"} |-> 2]

QuotaConfigs == {DefaultRequirements, DefOnlyRequirements}

\* rosters handed to the constructor
RosterDef4 ==
    << Player("p1", 2, "DEF"), Player("p2", 3, "DEF"),
       Player("p3", 4, "DEF"), Player("p4", 5, "DEF") >>

RosterMixed3 ==
    << Player("q1", 2, "DEF"), Player("q2", 4, "DEF"), Player("q3", 3, "MID") >>

Rosters == {RosterDef4, RosterMixed3}

----------------------------------------------------------------------------
(* Arithmetic helpers *)

RECURSIVE Fact(_)
Fact(n) == IF n <= 1 THEN 1 ELSE n * Fact(n - 1)

RECURSIVE SumSeq(_)
SumSeq(s) == IF s = <<>> THEN 0 ELSE Head(s) + SumSeq(Tail(s))

RECURSIVE SumOver(_, _)
\* sum of f[i] for i in S
SumOver(f, S) ==
    IF S = {} THEN 0
    ELSE LET i == CHOOSE k \in S : TRUE IN f[i] + SumOver(f, S \ {i})

MaxOf(S) == CHOOSE m \in S : \A k \in S : k <= m

MinOf(S) == CHOOSE m \in S : \A k \in S : m <= k

\* a < b for rating differences, Inf being float('inf')
Less(a, b) == a # Inf /\ (b = Inf \/ a < b)

LessEq(a, b) == a = b \/ Less(a, b)

----------------------------------------------------------------------------
(* The integer program of _try_balance_teams                              *)

Teams(T) == 0 .. (T - 1)

\* The values one player's variables can take, in halves: they sum to one
\* (constraint "each player must be assigned to exactly one team").
Rows(T) == { r \in [Teams(T) -> {0, 1, 2}] : SumOver(r, Teams(T)) = 2 }

\* A value for every player_vars[i, j] that satisfies the exactly-one-team
\* constraint; x[i][j] is twice the value of player_vars[i-1, j].
Valuations(ps, T) == [1 .. Len(ps) -> Rows(T)]

Column(x, j, S) == SumOver([i \in S |-> x[i][j]], S)

\* "Each team should have the same total number of players"
EqualSize(x, ps, T) ==
    \A j \in Teams(T) : Column(x, j, 1 .. Len(ps)) = 2 * (Len(ps) \div T)

\* "Position requirements for each team (minimum requirements)"
QuotaMet(x, ps, T, req) ==
    \A j \in Teams(T) : \A pos \in DOMAIN req :
        Column(x, j, {i \in 1 .. Len(ps) : ps[i].position = pos}) >= 2 * req[pos]

\* the points of the linear relaxation
LpFeasible(x, ps, T, req) == EqualSize(x, ps, T) /\ QuotaMet(x, ps, T, req)

Integral(x, ps, T) == \A i \in 1 .. Len(ps) : \A j \in Teams(T) : x[i][j] \in {0, 2}

LpPoints(ps, T, req) == { x \in Valuations(ps, T) : LpFeasible(x, ps, T, req) }

IntPoints(ps, T, req) == { x \in LpPoints(ps, T, req) : Integral(x, ps, T) }

\* random.uniform(0, rating_threshold), in hundredths: the two draws of a team
JitterDraws == {0, rating_threshold \div 2, rating_threshold}

Jitters(T) == [Teams(T) -> [pos : JitterDraws, neg : JitterDraws]]

\* The least max_diff the constraints of lines 78-84 allow for x, scaled by
\* 200 * T: max_diff >= 0, max_diff >= (team_rating - target) - jitter and
\* max_diff >= (target - team_rating) - jitter for every team.
Objective(x, ps, T, jit) ==
    LET total == SumSeq([i \in 1 .. Len(ps) |-> ps[i].overall])
        rating(j) == SumOver([i \in 1 .. Len(ps) |-> ps[i].overall * x[i][j]],
                             1 .. Len(ps))
        over(j) == 100 * (T * rating(j) - 2 * total)
    IN MaxOf({0} \cup { over(j) - 2 * T * jit[j].pos : j \in Teams(T) }
                 \cup { (0 - over(j)) - 2 * T * jit[j].neg : j \in Teams(T) })

\* the integer points that minimise the objective for some draw of the jitter
ProvedOptimal(ps, T, req) ==
    LET ints == IntPoints(ps, T, req)
    IN { x \in ints : \E jit \in Jitters(T) :
            \A y \in ints : Objective(x, ps, T, jit) <= Objective(y, ps, T, jit) }

ZeroValuation(ps, T) == [i \in 1 .. Len(ps) |-> [j \in Teams(T) |-> 0]]

\* random.choices in place of random.shuffle: a draw with replacement
ShuffledWithReplacement(ps) == [1 .. Len(ps) -> { ps[i] : i \in 1 .. Len(ps) }]

\* random.shuffle: any order of the same players
Shuffled(ps) ==
    { [i \in 1 .. Len(ps) |-> ps[f[i]]] : f \in Permutations(1 .. Len(ps)) }

\* What prob.solve(PULP_CBC_CMD(timeLimit=...)) leaves in prob.status and in the
\* variables, when it returns:
\*   'Optimal'    the optimum, or (PuLP >= 2.0) the best integer solution CBC
\*                had when the time limit stopped it;
\*   'Not Solved' CBC was stopped by the time limit; the variables hold an
\*                integer solution or the continuous values of the relaxation;
\*   'Infeasible' there is no integer solution.
SolverOutcomes(ps, T, req) ==
    LET ints == IntPoints(ps, T, req)
    IN      { [status |-> "Optimal", x |-> x] : x \in ProvedOptimal(ps, T, req) \cup ints }
       \cup { [status |-> "Not Solved", x |-> x] : x \in LpPoints(ps, T, req) }
       \cup ( IF ints = {} THEN { [status |-> "Infeasible", x |-> ZeroValuation(ps, T)] }
                           ELSE {} )

\* every order self.players can be in
Orders == UNION { Shuffled(r) : r \in Rosters }

\* LpStatus[prob.status] == 'Optimal' or LpStatus[prob.status] == 'Not Solved'
UsableStatus(st) == st = "Optimal" \/ st = "Not Solved"

RECURSIVE Members(_, _, _)
\* teams[j]: the players whose variable for team j has the value 1, in the
\* order of self.players
Members(x, ps, j) ==
    IF ps = <<>> THEN <<>>
    ELSE LET n == Len(ps)
             front == Members(x, SubSeq(ps, 1, n - 1), j)
         IN IF x[n][j] = 2 THEN Append(front, ps[n]) ELSE front

\* the defaultdict turned into a dict: only the teams that got a player
ExtractTeams(x, ps, T) ==
    LET keys == { j \in Teams(T) : Members(x, ps, j) # <<>> }
    IN [j \in keys |-> Members(x, ps, j)]

\* sum(p.overall for p in players) / len(players), scaled by n!
TeamAverage(team, n) ==
    SumSeq([i \in 1 .. Len(team) |-> team[i].overall]) * (Fact(n) \div Len(team))

\* max(team_ratings) - min(team_ratings), or inf for no team
MaxRatingDiff(teams, n) ==
    IF DOMAIN teams = {} THEN Inf
    ELSE LET avgs == { TeamAverage(teams[j], n) : j \in DOMAIN teams }
         IN MaxOf(avgs) - MinOf(avgs)

\* what _try_balance_teams returns for the solver outcome o
TryBalanceTeams(ps, T, o) ==
    LET teams == IF UsableStatus(o.status) THEN ExtractTeams(o.x, ps, T) ELSE <<>>
    IN [status |-> o.status, teams |-> teams, max_diff |-> MaxRatingDiff(teams, Len(ps))]

\* what _try_balance_teams can return, tabulated once for every program the
\* model can build
AttemptTable ==
    [ps \in Orders |-> [T \in 1 .. MaxTeams |-> [req \in QuotaConfigs |->
        { TryBalanceTeams(ps, T, o) : o \in SolverOutcomes(ps, T, req) }]]]

\* a tie replaces the best result: "max_diff <= best_diff"
BetterOrTie(teams, max_diff, diff) == DOMAIN teams # {} /\ LessEq(max_diff, diff)

\* the comparison is left out: "if teams"
BetterIgnoringDiff(teams, max_diff, diff) == DOMAIN teams # {}

\* "if teams and max_diff < best_diff"
Better(teams, max_diff, diff) == DOMAIN teams # {} /\ Less(max_diff, diff)

\* the divisibility check is left out
DivisibleAlways(n, t) == TRUE

\* n % t == 0
Divisible(n, t) == n % t = 0

\* time_limit // num_attempts
Budget(k) == TimeLimit \div k

----------------------------------------------------------------------------
(* The endpoints of src/api.py                                            *)

\* the classes "except Exception" catches: fastapi.HTTPException derives from
\* Exception, as pulp's PulpSolverError and KeyError do
ExceptionClasses == {"HTTPException", "PulpSolverError", "KeyError"}

\* str(e) of HTTPException(status_code=400, detail=d): "400: d" in current
\* starlette releases, the empty string in the releases before __str__ was added
HTTPExceptionStr(code, d) == {"400: " \o d, ""}

\* What the try block of balance_teams_json / balance_teams_csv does with the
\* outcome of balancer.balance_teams: the exception it raises, or its return.
TryBlock(raised, teams) ==
    IF raised # "none"
    THEN [kind |-> "raise", class |-> raised, status_code |-> HTTP_SERVER_ERROR,
          detail |-> raised]
    ELSE IF DOMAIN teams = {}
    THEN [kind |-> "raise", class |-> "HTTPException",
          status_code |-> HTTP_BAD_REQUEST, detail |-> NoTeamsDetail]
    ELSE IF \E j \in DOMAIN teams : \E i \in 1 .. Len(teams[j]) :
                teams[j][i].position \notin Positions
    THEN [kind |-> "raise", class |-> "KeyError", status_code |-> HTTP_SERVER_ERROR,
          detail |-> "KeyError"]
    ELSE [kind |-> "return", class |-> "BalanceResponse", status_code |-> 200,
          detail |-> ""]

\* "except Exception as e: raise HTTPException(status_code=500, detail=str(e))"
\* applied to the outcome of the try block: the answers the client can get
ExceptClause(out) ==
    IF out.kind = "raise" /\ out.class \in ExceptionClasses
    THEN { [status_code |-> HTTP_SERVER_ERROR, detail |-> d] :
             d \in IF out.class = "HTTPException"
                   THEN HTTPExceptionStr(out.status_code, out.detail)
                   ELSE {out.detail} }
    ELSE { [status_code |-> out.status_code, detail |-> out.detail] }

----------------------------------------------------------------------------
(* State machine *)

NoResponse == [endpoint |-> "none", status_code |-> 0, detail |-> ""]

NoPrev == [valid |-> FALSE, best_diff |-> Inf]

\* TeamBalancer(csv): _load_players reads the rows and shuffles them
Init ==
    /\ csv \in Rosters
    /\ players \in Shuffled(csv)
    /\ position_requirements \in QuotaConfigs
    /\ pc = "idle"
    /\ num_teams = 0
    /\ num_attempts = 0
    /\ attempt = 0
    /\ best_teams = <<>>
    /\ best_diff = Inf
    /\ status = "Not Solved"      \* LpStatus of a problem not solved yet
    /\ result = <<>>
    /\ exc = "none"
    /\ response = NoResponse
    /\ hist = <<>>
    /\ solver_calls = 0
    /\ shuffles = 0
    /\ prev = NoPrev

\* balance_teams(T, time_limit, K) up to the for loop: the divisibility check
\* and the initialisation of best_teams / best_diff
Enter(T, K) ==
    /\ num_teams' = T
    /\ num_attempts' = K
    /\ attempt' = 0
    /\ hist' = <<>>
    /\ solver_calls' = 0
    /\ shuffles' = 0
    /\ exc' = "none"
    /\ result' = <<>>
    /\ IF ~Divisible(Len(players), T)
       THEN /\ pc' = "done"
            /\ UNCHANGED <<best_teams, best_diff>>
       ELSE /\ best_teams' = <<>>
            /\ best_diff' = Inf
            /\ pc' = "loop"
    /\ UNCHANGED <<csv, players, position_requirements, status, response>>

\* first call on the balancer
Call ==
    /\ pc = "idle"
    /\ \E T \in 1 .. MaxTeams : \E K \in 1 .. MaxAttempts : Enter(T, K)
    /\ UNCHANGED prev

\* "for attempt in range(num_attempts): random.shuffle(self.players)"
LoopShuffle ==
    /\ pc = "loop"
    /\ attempt < num_attempts
    /\ players' \in Shuffled(players)
    /\ shuffles' = shuffles + 1
    /\ pc' = "try"
    /\ UNCHANGED <<csv, position_requirements, num_teams, num_attempts, attempt,
                   best_teams, best_diff, status, result, exc, response, hist,
                   solver_calls, prev>>

\* "teams, max_diff = self._try_balance_teams(...)" and "Keep the best result",
\* when the solver returns; after the last attempt, "return best_teams"
TryBalance(record) ==
    /\ pc = "try"
    /\ \E r \in AttemptTable[players][num_teams][position_requirements] :
         LET keep == Better(r.teams, r.max_diff, best_diff)
         IN /\ status' = r.status
            /\ best_teams' = IF keep THEN r.teams ELSE best_teams
            /\ best_diff' = IF keep THEN r.max_diff ELSE best_diff
            /\ hist' = IF record
                       THEN Append(hist, [budget |-> Budget(num_attempts),
                                          teams |-> r.teams, max_diff |-> r.max_diff])
                       ELSE hist
    /\ solver_calls' = solver_calls + 1
    /\ attempt' = attempt + 1
    /\ IF attempt' < num_attempts
       THEN pc' = "loop" /\ result' = result
       ELSE pc' = "done" /\ result' = best_teams'
    /\ UNCHANGED <<csv, players, position_requirements, num_teams, num_attempts,
                   exc, response, shuffles, prev>>

\* prob.solve raises (CBC missing, crashed, or left no solution file): nothing
\* in _try_balance_teams or balance_teams catches it
SolverRaises ==
    /\ pc = "try"
    /\ solver_calls' = solver_calls + 1
    /\ exc' = "PulpSolverError"
    /\ pc' = "raised"
    /\ UNCHANGED <<csv, players, position_requirements, num_teams, num_attempts,
                   attempt, best_teams, best_diff, status, result, response, hist,
                   shuffles, prev>>

\* The rest of the endpoint, after balancer.balance_teams returned or raised
\* (the two endpoints share this code: api.py 85-122 and 145-182).  The
\* request is over: the history of its run is dropped.
Respond ==
    /\ pc \in {"done", "raised"}
    /\ \E endpoint \in {"/balance/json", "/balance/csv"} :
       \E a \in ExceptClause(TryBlock(exc, result)) :
          response' = [endpoint |-> endpoint, status_code |-> a.status_code,
                       detail |-> a.detail]
    /\ hist' = <<>>
    /\ pc' = "responded"
    /\ UNCHANGED <<csv, players, position_requirements, num_teams, num_attempts,
                   attempt, best_teams, best_diff, status, result, exc,
                   solver_calls, shuffles, prev>>

Next ==
    \/ Call
    \/ LoopShuffle
    \/ TryBalance(TRUE)
    \/ SolverRaises
    \/ Respond

Spec == Init /\ [][Next]_vars

\* A caller that repeats a run on the same balancer with more attempts, all
\* else equal (same roster, same number of teams, same total time limit), to
\* compare the two results
Rerun ==
    /\ pc = "done"
    /\ ~prev.valid
    /\ Divisible(Len(players), num_teams)
    /\ prev' = [valid |-> TRUE, best_diff |-> best_diff]
    /\ \E K \in (num_attempts + 1) .. MaxAttempts : Enter(num_teams, K)

NextRerun ==
    \/ Call
    \/ LoopShuffle
    \/ TryBalance(FALSE)
    \/ SolverRaises
    \/ Rerun

SpecRerun == Init /\ [][NextRerun]_vars

----------------------------------------------------------------------------
(* Properties *)

Count(s, e) == Cardinality({ i \in 1 .. Len(s) : s[i] = e })

CountPosition(team, pos) == Cardinality({ i \in 1 .. Len(team) : team[i].position = pos })

\* how often player p occurs in the teams of an assignment
Occurrences(teams, p) == SumOver([j \in DOMAIN teams |-> Count(teams[j], p)], DOMAIN teams)

\* the attempts of a history that produced an assignment
UsableAttempts(h) == { i \in 1 .. Len(h) : DOMAIN h[i].teams # {} }

\* the earliest attempt of h whose max_diff is the least one among the usable
EarliestBest(h) ==
    LET least == MinOf({ h[i].max_diff : i \in UsableAttempts(h) })
    IN MinOf({ i \in UsableAttempts(h) : h[i].max_diff = least })

\* the assignment a best-of-N fold over h retains
BestOf(h) == IF UsableAttempts(h) = {} THEN <<>> ELSE h[EarliestBest(h)].teams

BestDiffOf(h) == IF UsableAttempts(h) = {} THEN Inf ELSE h[EarliestBest(h)].max_diff

\* balance_teams has returned or raised
RunEnded == pc \in {"done", "raised"}

\* C1: every non-empty result of a run with N % T = 0 has exactly T teams, each
\* of N/T players, and holds every roster player exactly once, whatever usable
\* status and variable values the solver returned.
C1_ResultIsPartition ==
    (pc = "done" /\ Len(players) % num_teams = 0 /\ DOMAIN result # {}) =>
        /\ DOMAIN result = Teams(num_teams)
        /\ \A j \in DOMAIN result : Len(result[j]) = Len(players) \div num_teams
        /\ \A i \in 1 .. Len(csv) : Occurrences(result, csv[i]) = 1

\* C2: in every non-empty result every team has at least the configured
\* minimum of players of each position that has a quota.
C2_ResultMeetsQuotas ==
    (pc = "done" /\ DOMAIN result # {}) =>
        \A j \in DOMAIN result : \A pos \in DOMAIN position_requirements :
            CountPosition(result[j], pos) >= position_requirements[pos]

\* C3: when N is not divisible by T, balance_teams returns the empty result at
\* once: no attempt is started, the solver is never called, the roster is not
\* shuffled.
C3_NonDivisibleReturnsEmptyAtOnce ==
    (pc # "idle" /\ Len(players) % num_teams # 0) =>
        /\ pc \in {"done", "responded"}
        /\ DOMAIN result = {}
        /\ attempt = 0
        /\ solver_calls = 0
        /\ shuffles = 0
        /\ exc = "none"

C3_Witness ==
    /\ pc = "done"
    /\ Len(players) % num_teams # 0
    /\ num_attempts >= 1
    /\ DOMAIN result = {}

\* C4: the running best, and the assignment returned after K attempts, is that
\* of the earliest attempt whose max-difference is the least among the attempts
\* that produced an assignment; a tie does not replace it and an unusable
\* attempt leaves it unchanged.
C4_ReturnsEarliestBest ==
    /\ pc \in {"loop", "try", "raised"} =>
           best_teams = BestOf(hist) /\ best_diff = BestDiffOf(hist)
    /\ (pc = "done" /\ Len(players) % num_teams = 0) =>
           /\ Len(hist) = num_attempts
           /\ result = BestOf(hist)
           /\ best_diff = BestDiffOf(hist)

\* two usable attempts tie on different assignments and the first is returned
C4_Witness ==
    /\ pc = "done"
    /\ Len(hist) = 2
    /\ UsableAttempts(hist) = {1, 2}
    /\ hist[1].max_diff = hist[2].max_diff
    /\ hist[1].teams # hist[2].teams
    /\ result = hist[1].teams

\* C5: when N % T = 0, balance_teams runs all K attempts, with no early exit,
\* and then ends with a non-empty result exactly when some attempt produced a
\* non-empty assignment.
C5_AllAttemptsThenResult ==
    (RunEnded /\ Len(players) % num_teams = 0) =>
        /\ pc = "done"
        /\ attempt = num_attempts
        /\ solver_calls = num_attempts
        /\ (DOMAIN result # {}) <=> (UsableAttempts(hist) # {})

C7_SolverFailureIsAbsorbed ==
    solver_calls > attempt =>
        /\ exc = "none"
        /\ pc \in {"loop", "try", "done"}
        /\ pc = "done" => result = BestOf(hist)

StructurallyInfeasible(ps, T, req) ==
    \/ \E pos \in DOMAIN req : CountPosition(ps, pos) < T * req[pos]
    \/ T * SumOver(req, DOMAIN req) > Len(ps)

\* C9: with N % T = 0 and quotas that the roster cannot fill, no attempt yields
\* an assignment and the run returns the empty result; with four DEF players,
\* T = 2 and the single quota DEF: 2 the run returns two DEF per team.
C9_InfeasibleEmptyFeasibleFilled ==
    RunEnded =>
        /\ ( /\ Len(players) % num_teams = 0
             /\ StructurallyInfeasible(players, num_teams, position_requirements) )
           => ( /\ pc = "done"
                /\ DOMAIN result = {}
                /\ UsableAttempts(hist) = {} )
        /\ ( /\ csv = RosterDef4
             /\ position_requirements = DefOnlyRequirements
             /\ num_teams = 2
             /\ num_attempts >= 1 )
           => ( /\ pc = "done"
                /\ DOMAIN result = Teams(num_teams)
                /\ \A j \in DOMAIN result : CountPosition(result[j], "DEF") = 2 )

\* C10: when balance_teams returns the empty result the endpoint answers 400
\* with the detail "Could not balance teams with given constraints"; 500 is
\* answered only for unexpected exceptions.
C10_EmptyResultAnswers400 ==
    pc = "responded" =>
        /\ (exc = "none" /\ DOMAIN result = {}) =>
               /\ response.status_code = HTTP_BAD_REQUEST
               /\ response.detail = NoTeamsDetail
        /\ response.status_code = HTTP_SERVER_ERROR => exc # "none"

====
